---- MODULE Spec2Model ----
(***************************************************************************)
(* State-machine model of the widget handlers of sf-ui-common              *)
(* (src/src/systems.rs, src/src/lib.rs,                                    *)
(* src/src/advanced_components/scroll_area.rs).                            *)
(*                                                                         *)
(* The host engine drives the handlers frame by frame: its input pass      *)
(* writes Interaction / key / wheel state, then every scheduled handler    *)
(* runs once, in an order the host's scheduler picks.  A handler that runs *)
(* again before the next input pass stands for its run in a later frame    *)
(* that brought no input: Changed<Interaction> is false for it, its        *)
(* EventReader is drained and just_pressed is false.                       *)
(*                                                                         *)
(* f32 fields are modelled by integers (the integer-valued floats).        *)
(* Option<T> is a sequence of length 0 (None) or 1 (Some).                 *)
(* Each widget family is explored on its own: `family` names the family    *)
(* whose entities the host has spawned in the run.                         *)
(***************************************************************************)
EXTENDS Integers, Sequences, FiniteSets

VARIABLES
    family,         \* the widget family spawned in this run
    scheduled,      \* the handlers the host added to its Update schedule
    seen,           \* scheduled handlers that ran since the last input pass
    last,           \* the last step taken: "init", "input" or a handler name
    repeat,         \* the last step ran the handler that the step before it ran
    changed,        \* entities whose Interaction the last input pass changed (or that were just spawned)
    panicked,       \* a handler panicked: the host's app has terminated
    slider,         \* UiSlider component: value, min, max, step, disabled
    sl_interaction, \* Interaction of the slider entity
    sl_width,       \* Style.width of the slider entity
    sl_pointer,     \* pointer position within the slider's rectangle, in percent of its width
    checkbox,       \* UiCheckbox component: checked, disabled
    cb_interaction, \* Interaction of the checkbox entity
    cb_bg,          \* BackgroundColor of the checkbox entity
    cb_children,    \* Children of the checkbox entity: per child, the values of its text sections
    cb_initial,     \* history: `checked` as the checkbox was spawned
    cb_presses,     \* history: whether the input passes brought an odd number of transitions to Pressed
    button,         \* UiButton component: pressed, hovered, disabled
    bt_interaction, \* Interaction of the button entity
    bt_bg,          \* BackgroundColor of the button entity
    bt_children,    \* Children of the button entity: per child, the colors of its text sections
    dropdown,       \* Dropdown component: options, selected_index, opened
    dd_interaction, \* Interaction of the dropdown entity
    dd_children,    \* Children of the dropdown entity, in order
    dd_presses,     \* history: whether the input passes brought an odd number of transitions to Pressed
    dd_row_pressed, \* position among the children of the option row whose Interaction is Pressed, or 0
    tab_active,     \* TabbedContainer.active_tab
    tab_children,   \* Children of the tab container: its tab buttons, in order
    tab_vis,        \* Visibility of every tab button
    tab_inter,      \* Interaction of every tab button
    tab_handled,    \* history: tab_system has run over a press of a tab button
    area,           \* ScrollArea component: scroll_position, max_scroll, enabled, sensitivity
    area_built,     \* history: how the host built the ScrollArea
    pane,           \* ScrollPane component: scroll_position, max_scroll
    sc_children,    \* heights of the scroll widget's children (host layout)
    windows,        \* number of Window entities in the world
    cursor,         \* Window::cursor_position()
    wheel,          \* MouseWheel events of the frame, in order
    current_focus,  \* focus_navigation_system's Local<Option<Entity>>
    foc_pos,        \* GlobalTransform translation of every focusable: <<x, y>>
    foc_state,      \* Focusable.state of every focusable
    foc_bg,         \* BackgroundColor of every focusable
    foc_border,     \* BorderColor of every focusable
    key_tab,        \* ButtonInput::just_pressed(KeyCode::Tab) in this frame
    foc_hist,       \* history: current_focus after every handled Tab press
    row,            \* SettingRow component: help_text
    row_interaction,\* Interaction of the setting row
    row_focus,      \* Focusable.state of the setting row
    row_bg,         \* BackgroundColor of the setting row
    tooltips        \* text of every Tooltip component in the world

commonVars   == <<family, scheduled, seen, last, repeat, changed, panicked>>
sliderVars   == <<slider, sl_interaction, sl_width, sl_pointer>>
checkboxVars == <<checkbox, cb_interaction, cb_bg, cb_children, cb_initial, cb_presses>>
buttonVars   == <<button, bt_interaction, bt_bg, bt_children>>
dropdownVars == <<dropdown, dd_interaction, dd_children, dd_presses, dd_row_pressed>>
tabVars      == <<tab_active, tab_children, tab_vis, tab_inter, tab_handled>>
scrollVars   == <<area, area_built, pane, sc_children, windows, cursor, wheel>>
focusVars    == <<current_focus, foc_pos, foc_state, foc_bg, foc_border, key_tab, foc_hist>>
rowVars      == <<row, row_interaction, row_focus, row_bg, tooltips>>
vars == <<commonVars, sliderVars, checkboxVars, buttonVars, dropdownVars, tabVars,
          scrollVars, focusVars, rowVars>>

\* What a family's steps leave alone: the other families' entities do not exist in the run.
notSlider   == <<checkboxVars, buttonVars, dropdownVars, tabVars, scrollVars, focusVars, rowVars>>
notCheckbox == <<sliderVars, buttonVars, dropdownVars, tabVars, scrollVars, focusVars, rowVars>>
notButton   == <<sliderVars, checkboxVars, dropdownVars, tabVars, scrollVars, focusVars, rowVars>>
notDropdown == <<sliderVars, checkboxVars, buttonVars, tabVars, scrollVars, focusVars, rowVars>>
notTab      == <<sliderVars, checkboxVars, buttonVars, dropdownVars, scrollVars, focusVars, rowVars>>
notScroll   == <<sliderVars, checkboxVars, buttonVars, dropdownVars, tabVars, focusVars, rowVars>>
notPane     == <<notScroll, area, area_built>>
notArea     == <<notScroll, pane>>
notFocus    == <<sliderVars, checkboxVars, buttonVars, dropdownVars, tabVars, scrollVars, rowVars>>
notRow      == <<sliderVars, checkboxVars, buttonVars, dropdownVars, tabVars, scrollVars, focusVars>>

----------------------------------------------------------------------------
(* Host-side vocabulary *)

Interactions == {"None", "Hovered", "Pressed"}

None == <<>>
Some(x) == <<x>>
IsSome(o) == Len(o) = 1
Unwrap(o) == o[1]

\* f32::clamp(lo, hi)
Clamp(x, lo, hi) == IF x < lo THEN lo ELSE IF x > hi THEN hi ELSE x

\* Val::Auto (Style::default().width), Val::Px(v), Val::Percent(v)
ValAuto == [unit |-> "Auto", v |-> 0]
ValPx(x) == [unit |-> "Px", v |-> x]
ValPercent(x) == [unit |-> "Percent", v |-> x]

\* The single entity of a one-entity family
TheEntity == 1

\* Changed<Interaction> as handler h sees it for entity e: the component was
\* written (or added) after h last ran.
ChangedAlways(h, e) == TRUE
ChangedInteraction(h, e) == h \notin seen /\ e \in changed

\* A handler's run: it has now seen everything the last input pass wrote.
Ran(h) ==
    /\ h \in scheduled
    /\ ~panicked
    /\ seen' = seen \cup {h}
    /\ last' = h
    /\ repeat' = (last = h)
    /\ UNCHANGED <<family, scheduled, changed, panicked>>

\* A handler's run that ends in a panic (an index out of bounds, a failed
\* Query::single): the app terminates with what the handler wrote so far.
Panics(h) ==
    /\ h \in scheduled
    /\ ~panicked
    /\ seen' = seen \cup {h}
    /\ last' = h
    /\ repeat' = (last = h)
    /\ panicked' = TRUE
    /\ UNCHANGED <<family, scheduled, changed>>

\* The host's input pass opens a frame once every scheduled handler ran in the previous one.
FrameDone == scheduled \subseteq seen

Input(ch) ==
    /\ FrameDone
    /\ ~panicked
    /\ seen' = {}
    /\ last' = "input"
    /\ repeat' = FALSE
    /\ changed' = ch
    /\ UNCHANGED <<family, scheduled, panicked>>

----------------------------------------------------------------------------
(* Sliders: systems::slider_interaction_system and the crate-root          *)
(* slider_interaction_system                                               *)

SliderRanges == {<<0, 1>>, <<2, 5>>, <<0, 100>>}
SliderSteps == {None, Some(2), Some(10)}
PointerPercents == {0, 34, 100}

\* value = min + k*step for an integer k
OnStep(s) == IsSome(s.step) => (s.value - s.min) % Unwrap(s.step) = 0

\* The sliders a host builds within the documented ranges
SliderInits ==
    { s \in [value : 0..100, min : {0, 2}, max : {1, 5, 100},
             step : SliderSteps, disabled : BOOLEAN] :
        /\ <<s.min, s.max>> \in SliderRanges
        /\ s.min <= s.value /\ s.value <= s.max
        /\ OnStep(s) }

SliderHandlers == {"sys_slider", "lib_slider"}

InitSlider ==
    /\ slider \in SliderInits
    /\ sl_interaction = "None"
    /\ sl_width = ValAuto
    /\ sl_pointer \in PointerPercents

IdleSlider ==
    /\ slider = [value |-> 0, min |-> 0, max |-> 1, step |-> None, disabled |-> FALSE]
    /\ sl_interaction = "None"
    /\ sl_width = ValAuto
    /\ sl_pointer = 0

\* ui_focus_system (host): the pointer moves over / presses / leaves the slider
SliderInput ==
    /\ family = "slider"
    /\ \E i \in Interactions, p \in PointerPercents :
        /\ sl_interaction' = i
        /\ sl_pointer' = p
        /\ Input(IF i # sl_interaction THEN {TheEntity} ELSE {})
    /\ UNCHANGED <<slider, sl_width, notSlider>>

\* systems.rs: the query borrows UiSlider immutably; every arm writes the width
SysSliderWidth(s, i) == ValPx(s.value * 100)

SysSlider ==
    /\ family = "slider"
    /\ Ran("sys_slider")
    /\ IF ChangedInteraction("sys_slider", TheEntity)
       THEN sl_width' = SysSliderWidth(slider, sl_interaction)
       ELSE sl_width' = sl_width
    /\ UNCHANGED <<slider, sl_interaction, sl_pointer, notSlider>>

\* lib.rs: the Pressed arm clamps value to [0, 1] first
LibSliderValue(s, i) == IF i = "Pressed" THEN Clamp(s.value, 0, 1) ELSE s.value

LibSlider ==
    /\ family = "slider"
    /\ Ran("lib_slider")
    /\ IF ChangedInteraction("lib_slider", TheEntity)
       THEN /\ slider' = [slider EXCEPT !.value = LibSliderValue(slider, sl_interaction)]
            /\ sl_width' = ValPx(slider'.value * 100)
       ELSE UNCHANGED <<slider, sl_width>>
    /\ UNCHANGED <<sl_interaction, sl_pointer, notSlider>>

NextSlider == SliderInput \/ SysSlider \/ LibSlider

----------------------------------------------------------------------------
(* Checkboxes: systems::checkbox_interaction_system and the crate-root     *)
(* checkbox_interaction_system                                             *)

CheckboxHandlers == {"sys_checkbox", "lib_checkbox"}

\* No child, the label of bundles::checkbox_bundle (one section), or a text
\* node without sections (Text::default())
CheckboxChildrenInits(checked) ==
    { <<>>, << <<IF checked THEN "X" ELSE "">> >>, << <<>> >> }

InitCheckbox ==
    /\ checkbox \in [checked : BOOLEAN, disabled : BOOLEAN]
    /\ cb_interaction = "None"
    /\ cb_bg = "button::NORMAL"
    /\ cb_children \in CheckboxChildrenInits(checkbox.checked)
    /\ cb_initial = checkbox.checked
    /\ cb_presses = FALSE

IdleCheckbox ==
    /\ checkbox = [checked |-> FALSE, disabled |-> FALSE]
    /\ cb_interaction = "None"
    /\ cb_bg = "button::NORMAL"
    /\ cb_children = <<>>
    /\ cb_initial = FALSE
    /\ cb_presses = FALSE

CheckboxInput ==
    /\ family = "checkbox"
    /\ \E i \in Interactions :
        /\ cb_interaction' = i
        /\ cb_presses' = IF i # cb_interaction /\ i = "Pressed" THEN ~cb_presses ELSE cb_presses
        /\ Input(IF i # cb_interaction THEN {TheEntity} ELSE {})
    /\ UNCHANGED <<checkbox, cb_bg, cb_children, cb_initial, notCheckbox>>

\* systems.rs line 57
SysCheckboxToggles(i, c) == i = "Pressed" /\ ~c.disabled

SysCheckbox ==
    /\ family = "checkbox"
    /\ Ran("sys_checkbox")
    /\ IF /\ ChangedInteraction("sys_checkbox", TheEntity)
          /\ SysCheckboxToggles(cb_interaction, checkbox)
       THEN /\ checkbox' = [checkbox EXCEPT !.checked = ~checkbox.checked]
            /\ cb_bg' = IF checkbox'.checked THEN "button::PRESSED" ELSE "button::NORMAL"
       ELSE UNCHANGED <<checkbox, cb_bg>>
    /\ UNCHANGED <<cb_interaction, cb_children, cb_initial, cb_presses, notCheckbox>>

\* lib.rs line 206: no test of `disabled`
LibCheckboxToggles(i, c) == i = "Pressed"

\* lib.rs: the query asks for &Children, so a checkbox without children is not visited;
\* children[0] is the label (the text query matches it: it is a text node), and
\* text.sections[0] is an index out of bounds when the label has no section
LibCheckbox ==
    /\ family = "checkbox"
    /\ IF /\ Len(cb_children) > 0
          /\ ChangedInteraction("lib_checkbox", TheEntity)
          /\ LibCheckboxToggles(cb_interaction, checkbox)
       THEN /\ checkbox' = [checkbox EXCEPT !.checked = ~checkbox.checked]
            /\ IF Len(cb_children[1]) > 0
               THEN /\ Ran("lib_checkbox")
                    /\ cb_children' = [cb_children EXCEPT ![1][1] =
                                         IF checkbox'.checked THEN "checked-box" ELSE "empty-box"]
               ELSE /\ Panics("lib_checkbox")
                    /\ cb_children' = cb_children
       ELSE /\ Ran("lib_checkbox")
            /\ UNCHANGED <<checkbox, cb_children>>
    /\ UNCHANGED <<cb_interaction, cb_bg, cb_initial, cb_presses, notCheckbox>>

NextCheckbox == CheckboxInput \/ SysCheckbox \/ LibCheckbox

----------------------------------------------------------------------------
(* Buttons: systems::button_interaction_system and the crate-root          *)
(* button_interaction_system                                               *)

ButtonHandlers == {"sys_button", "lib_button"}

\* A child of the button: a text node with its sections' colors, or another node
TextChild(colors) == [text |-> TRUE, sections |-> colors]
OtherChild == [text |-> FALSE, sections |-> <<>>]

ButtonChildrenInits ==
    { <<>>,
      <<TextChild(<<"text::NORMAL">>)>>,
      <<OtherChild, TextChild(<<"WHITE", "text::NORMAL">>)>> }

InitButton ==
    /\ button \in [pressed : {FALSE}, hovered : {FALSE}, disabled : BOOLEAN]
    /\ bt_interaction = "None"
    /\ bt_bg = "button::NORMAL"
    /\ bt_children \in ButtonChildrenInits

IdleButton ==
    /\ button = [pressed |-> FALSE, hovered |-> FALSE, disabled |-> FALSE]
    /\ bt_interaction = "None"
    /\ bt_bg = "button::NORMAL"
    /\ bt_children = <<>>

ButtonInput ==
    /\ family = "button"
    /\ \E i \in Interactions :
        /\ bt_interaction' = i
        /\ Input(IF i # bt_interaction THEN {TheEntity} ELSE {})
    /\ UNCHANGED <<button, bt_bg, bt_children, notButton>>

\* systems.rs lines 28-32 and lib.rs lines 192-196
ButtonColor(i) ==
    CASE i = "Pressed" -> "button::PRESSED"
      [] i = "Hovered" -> "button::HOVERED"
      [] OTHER -> "button::NORMAL"

\* systems.rs lines 39-43
ButtonTextColor(i) == IF i = "Pressed" THEN "focus::TEXT" ELSE "text::NORMAL"

\* systems.rs lines 35-47: every section of every child the text query matches
RecolorFirstSection(children, i) ==
    [k \in 1..Len(children) |->
        IF children[k].text
        THEN [children[k] EXCEPT !.sections =
                 [n \in 1..Len(children[k].sections) |->
                     IF n = 1 THEN ButtonTextColor(i) ELSE children[k].sections[n]]]
        ELSE children[k]]

RecolorChildren(children, i) ==
    [k \in 1..Len(children) |->
        IF children[k].text
        THEN [children[k] EXCEPT !.sections =
                 [n \in 1..Len(children[k].sections) |-> ButtonTextColor(i)]]
        ELSE children[k]]

SysButton ==
    /\ family = "button"
    /\ Ran("sys_button")
    /\ IF ChangedInteraction("sys_button", TheEntity)
       THEN /\ button' = [button EXCEPT !.hovered = (bt_interaction = "Hovered"),
                                        !.pressed = (bt_interaction = "Pressed")]
            /\ bt_bg' = ButtonColor(bt_interaction)
            /\ bt_children' = RecolorChildren(bt_children, bt_interaction)
       ELSE UNCHANGED <<button, bt_bg, bt_children>>
    /\ UNCHANGED <<bt_interaction, notButton>>

LibButton ==
    /\ family = "button"
    /\ Ran("lib_button")
    /\ IF ChangedInteraction("lib_button", TheEntity)
       THEN bt_bg' = ButtonColor(bt_interaction)
       ELSE bt_bg' = bt_bg
    /\ UNCHANGED <<button, bt_interaction, bt_children, notButton>>

NextButton == ButtonInput \/ SysButton \/ LibButton

----------------------------------------------------------------------------
(* Dropdowns: systems::dropdown_system                                     *)

DropdownHandlers == {"dropdown"}

MaxOptions == 2

\* A child of the dropdown: a row the handler synthesized for option `index`
\* (Name "DropdownOption_<index>", one text child holding the option), or a
\* child the host built (the dropdown's own label)
OptionRow(i, option) == [synth |-> TRUE, index |-> i, label |-> option]
HostChild == [synth |-> FALSE, index |-> 0, label |-> "host"]

OptionNames == {"a", "b"}

DropdownOptionInits == UNION { [1..n -> OptionNames] : n \in 0..MaxOptions }

InitDropdown ==
    /\ dropdown \in [options : DropdownOptionInits, selected_index : {0}, opened : {FALSE}]
    /\ dd_interaction = "None"
    /\ dd_children \in {<<>>, <<HostChild>>}
    /\ dd_presses = FALSE
    /\ dd_row_pressed = 0

IdleDropdown ==
    /\ dropdown = [options |-> <<>>, selected_index |-> 0, opened |-> FALSE]
    /\ dd_interaction = "None"
    /\ dd_children = <<>>
    /\ dd_presses = FALSE
    /\ dd_row_pressed = 0

\* Entity of the child at position k of the dropdown
RowEntity(k) == TheEntity + k

\* Positions of the synthesized option rows (ButtonBundle: they carry an Interaction)
OptionRowPositions == { k \in 1..Len(dd_children) : dd_children[k].synth }

\* The pointer is over the dropdown or over one of its option rows (r), which it may press
DropdownInput ==
    /\ family = "dropdown"
    /\ \E i \in Interactions, r \in {0} \cup OptionRowPositions :
        /\ r # 0 => i = "None"
        /\ dd_interaction' = i
        /\ dd_row_pressed' = r
        /\ dd_presses' = IF i # dd_interaction /\ i = "Pressed" THEN ~dd_presses ELSE dd_presses
        /\ Input((IF i # dd_interaction THEN {TheEntity} ELSE {})
                 \cup (IF r # dd_row_pressed
                       THEN { RowEntity(k) : k \in {r, dd_row_pressed} \ {0} }
                       ELSE {}))
    /\ UNCHANGED <<dropdown, dd_children, notDropdown>>

\* systems.rs line 196: the query asks for the Dropdown component, which the
\* option rows do not carry
DropdownQueryWithRows == {TheEntity} \cup { RowEntity(k) : k \in OptionRowPositions }
DropdownQuery == {TheEntity}

\* Interaction of the dropdown entity or of an option row
DropdownInteractionOf(e) ==
    IF e = TheEntity THEN dd_interaction
    ELSE IF dd_row_pressed # 0 /\ e = RowEntity(dd_row_pressed) THEN "Pressed"
    ELSE "None"

\* systems.rs lines 206-229: with_children appends one row per option, in order
SpawnOptionRows(children, options) ==
    children \o [k \in 1..Len(options) |-> OptionRow(k - 1, options[k])]

\* systems.rs line 232: despawn_descendants removes every child
DespawnNothing(children) == children
DespawnDescendants(children) == <<>>

\* The deferred commands are applied when the handler's run ends.
DropdownSystem ==
    /\ family = "dropdown"
    /\ Ran("dropdown")
    /\ IF \E e \in DropdownQuery :
              ChangedInteraction("dropdown", e) /\ DropdownInteractionOf(e) = "Pressed"
       THEN /\ dropdown' = [dropdown EXCEPT !.opened = ~dropdown.opened]
            /\ dd_children' = IF dropdown'.opened
                              THEN SpawnOptionRows(dd_children, dropdown.options)
                              ELSE DespawnDescendants(dd_children)
            /\ dd_row_pressed' = IF dd_row_pressed \in 1..Len(dd_children')
                                 THEN dd_row_pressed ELSE 0
       ELSE UNCHANGED <<dropdown, dd_children, dd_row_pressed>>
    /\ UNCHANGED <<dd_interaction, dd_presses, notDropdown>>

NextDropdown == DropdownInput \/ DropdownSystem

----------------------------------------------------------------------------
(* Tab containers: systems::tab_system                                     *)

TabHandlers == {"tab"}

NumTabs == 3

\* Entity ids: the container, and its tab buttons 1..n
TabContainerEntity == 0
TabButtons == 1..Len(tab_children)

Visibilities == {"Inherited", "Visible", "Hidden"}

\* A child is shown unless it is Hidden (the container itself is shown)
Shown(v) == v # "Hidden"

\* Parent component of a tab button
TabParent(c) == TabContainerEntity

\* The host spawns the children with the default Visibility, or arranges
\* them for the initial active tab
TabVisInits(n) ==
    { [c \in 1..n |-> "Inherited"],
      [c \in 1..n |-> IF c = 1 THEN "Visible" ELSE "Hidden"] }

InitTab ==
    /\ tab_active = 0
    /\ \E n \in 1..NumTabs :
        /\ tab_children = [k \in 1..n |-> k]
        /\ tab_vis \in TabVisInits(n)
        /\ tab_inter = [c \in 1..n |-> "None"]
    /\ tab_handled = FALSE

IdleTab ==
    /\ tab_active = 0
    /\ tab_children = <<>>
    /\ tab_vis = <<>>
    /\ tab_inter = <<>>
    /\ tab_handled = FALSE

\* The pointer is over at most one tab button
TabInput ==
    /\ family = "tab"
    /\ \E t \in {0} \cup TabButtons, i \in Interactions :
        /\ tab_inter' = [c \in TabButtons |-> IF c = t THEN i ELSE "None"]
        /\ Input({c \in TabButtons : tab_inter'[c] # tab_inter[c]})
    /\ UNCHANGED <<tab_active, tab_children, tab_vis, tab_handled, notTab>>

\* Iterator::position: the 0-based index of the first element equal to x
RECURSIVE PositionFrom(_, _, _)
PositionFrom(seq, x, k) ==
    IF k > Len(seq) THEN None
    ELSE IF seq[k] = x THEN Some(k - 1)
    ELSE PositionFrom(seq, x, k + 1)

Position(seq, x) == PositionFrom(seq, x, 1)

\* systems.rs line 249: the entity looked for among the container's children
TabSearched(c) == TabParent(c)

\* systems.rs lines 253-258: the visibility commands issued for one press
RECURSIVE TabCommandsFrom(_, _, _)
TabCommandsFrom(children, index, k) ==
    IF k > Len(children) THEN <<>>
    ELSE <<[entity |-> children[k], insert |-> "Visible"]>>
         \o (IF k - 1 # index
             THEN <<[entity |-> children[k], insert |-> "Hidden"]>>
             ELSE <<>>)
         \o TabCommandsFrom(children, index, k + 1)

TabCommands(children, index) == TabCommandsFrom(children, index, 1)

\* Commands are applied in the order they were issued
RECURSIVE ApplyCommands(_, _)
ApplyCommands(vis, cmds) ==
    IF cmds = <<>> THEN vis
    ELSE ApplyCommands([vis EXCEPT ![Head(cmds).entity] = Head(cmds).insert], Tail(cmds))

\* The buttons the query yields, in entity order, from button k on
RECURSIVE TabLoop(_, _, _)
TabLoop(k, active, cmds) ==
    IF k > Len(tab_children) THEN [active |-> active, cmds |-> cmds]
    ELSE IF ChangedInteraction("tab", k) /\ tab_inter[k] = "Pressed"
    THEN LET index == Position(tab_children, TabSearched(k))
         IN  IF IsSome(index)
             THEN TabLoop(k + 1, Unwrap(index),
                          cmds \o TabCommands(tab_children, Unwrap(index)))
             ELSE TabLoop(k + 1, active, cmds)
    ELSE TabLoop(k + 1, active, cmds)

TabSystem ==
    /\ family = "tab"
    /\ Ran("tab")
    /\ LET r == TabLoop(1, tab_active, <<>>)
       IN  /\ tab_active' = r.active
           /\ tab_vis' = ApplyCommands(tab_vis, r.cmds)
    /\ tab_handled' = (tab_handled \/
                         \E c \in TabButtons :
                            ChangedInteraction("tab", c) /\ tab_inter[c] = "Pressed")
    /\ UNCHANGED <<tab_children, tab_inter, notTab>>

NextTab == TabInput \/ TabSystem

----------------------------------------------------------------------------
(* Scroll widgets: systems::scroll_pane_system, scroll_area_system and     *)
(* calculate_scroll_bounds_system                                          *)

PaneHandlers == {"scroll_pane"}
AreaHandlers == {"scroll_area", "scroll_bounds"}

MaxWheel == 2

Vec2(a, b) == [x |-> a, y |-> b]
Vec2Zero == Vec2(0, 0)

Min2(a, b) == IF a < b THEN a ELSE b
Max2(a, b) == IF a > b THEN a ELSE b

\* MouseWheel events the host's input layer delivers
WheelEvents == [unit : {"Line", "Pixel"}, y : {-5, 5}]
WheelQueues == UNION { [1..n -> WheelEvents] : n \in 0..MaxWheel }

\* Node::logical_rect of the scroll widget and the cursor, along one axis
WidgetRect == [min |-> 1, max |-> 3]
CursorPositions == {None, Some(0), Some(1)}

\* The world holds the primary window, or no window (a headless host)
WindowCounts == {0, 1}

\* Without a window there is no cursor position to read
CursorsOf(w) == IF w = 1 THEN CursorPositions ELSE {None}

\* Rect::contains: both edges belong to the rectangle
RectContains(r, p) == r.min <= p /\ p <= r.max

\* Node::size() of the scroll area
AreaSize == Vec2(10, 10)

\* Heights of the area's children as the host lays them out
ChildHeights == {<<>>, <<10>>, <<20, 15>>}

\* scroll_area.rs lines 59-62 and systems.rs lines 281-284
LineScale == 20
ScrollDelta(ev) == IF ev.unit = "Line" THEN ev.y * LineScale ELSE ev.y

\* ScrollArea::new, ScrollArea::with_sensitivity(s), and a struct literal
ScrollAreaNew == [pos |-> Vec2Zero, max |-> Vec2Zero, enabled |-> TRUE, sensitivity |-> 20]
ScrollAreaDefault == [pos |-> Vec2Zero, max |-> Vec2Zero, enabled |-> FALSE, sensitivity |-> 0]
ScrollAreaWithSensitivity(s) == [ScrollAreaDefault EXCEPT !.sensitivity = s]

\* The ways a host builds the component: the two constructors, the derived
\* Default, and a struct literal
ScrollAreaBuilds ==
    { <<"new", ScrollAreaNew>>,
      <<"with_sensitivity", ScrollAreaWithSensitivity(1)>>,
      <<"default", ScrollAreaDefault>>,
      <<"literal", [ScrollAreaNew EXCEPT !.sensitivity = 1]>> }

ScrollAreaInits == { b[2] : b \in ScrollAreaBuilds }

\* ScrollPane::default, and a pane whose max_scroll the host set
ScrollPaneDefault == [pos |-> Vec2Zero, max |-> Vec2Zero]
ScrollPaneInits == { ScrollPaneDefault, [ScrollPaneDefault EXCEPT !.max = Vec2(0, 25)] }

InitPane ==
    /\ pane \in ScrollPaneInits
    /\ sc_children \in ChildHeights
    /\ windows \in WindowCounts
    /\ cursor \in CursorsOf(windows)
    /\ wheel = <<>>

InitArea ==
    /\ \E b \in ScrollAreaBuilds :
        /\ area_built = b[1]
        /\ area = b[2]
    /\ sc_children \in ChildHeights
    /\ windows \in WindowCounts
    /\ cursor \in CursorsOf(windows)
    /\ wheel = <<>>

IdlePane == pane = ScrollPaneDefault
IdleArea == area = ScrollAreaDefault /\ area_built = "default"
IdleScrollInput == sc_children = <<>> /\ windows = 1 /\ cursor = None /\ wheel = <<>>

\* The input layer: cursor position and the frame's wheel events; and the
\* layout pass, which may have resized or replaced the children
PaneInput ==
    /\ family = "pane"
    /\ cursor' \in CursorsOf(windows)
    /\ wheel' \in WheelQueues
    /\ sc_children' \in ChildHeights
    /\ Input({})
    /\ UNCHANGED <<pane, windows, notPane>>

AreaInput ==
    /\ family = "area"
    /\ cursor' \in CursorsOf(windows)
    /\ wheel' \in WheelQueues
    /\ sc_children' \in ChildHeights
    /\ Input({})
    /\ UNCHANGED <<area, area_built, windows, notArea>>

\* EventReader::read: the events this handler has not read yet
Unread(h) == IF h \in seen THEN <<>> ELSE wheel

CursorOver == IsSome(cursor) /\ RectContains(WidgetRect, Unwrap(cursor))

\* systems.rs lines 286-287
PaneScroll(p, ev) ==
    [p EXCEPT !.pos.y = Min2(Max2(p.pos.y + ScrollDelta(ev), 0), p.max.y)]

RECURSIVE PaneEvents(_, _)
PaneEvents(p, evs) ==
    IF evs = <<>> THEN p
    ELSE PaneEvents(IF CursorOver THEN PaneScroll(p, Head(evs)) ELSE p, Tail(evs))

\* systems.rs line 271: Query::single panics unless exactly one window exists
ScrollPaneSystem ==
    /\ family = "pane"
    /\ IF windows = 1
       THEN /\ Ran("scroll_pane")
            /\ pane' = PaneEvents(pane, Unread("scroll_pane"))
       ELSE /\ Panics("scroll_pane")
            /\ pane' = pane
    /\ UNCHANGED <<sc_children, windows, cursor, wheel, notPane>>

\* scroll_area.rs lines 64-65: Vec2 + f32 adds the scalar to both axes
AreaScroll(a, ev) ==
    LET d == ScrollDelta(ev) * a.sensitivity
    IN  [a EXCEPT !.pos = Vec2(Min2(Max2(a.pos.x + d, 0), a.max.x),
                               Min2(Max2(a.pos.y + d, 0), a.max.y))]

RECURSIVE AreaEvents(_, _)
AreaEvents(a, evs) ==
    IF evs = <<>> THEN a
    ELSE AreaEvents(IF a.enabled /\ CursorOver THEN AreaScroll(a, Head(evs)) ELSE a,
                    Tail(evs))

\* scroll_area.rs line 45: Query::single panics unless exactly one window exists
ScrollAreaSystem ==
    /\ family = "area"
    /\ IF windows = 1
       THEN /\ Ran("scroll_area")
            /\ area' = AreaEvents(area, Unread("scroll_area"))
       ELSE /\ Panics("scroll_area")
            /\ area' = area
    /\ UNCHANGED <<area_built, sc_children, windows, cursor, wheel, notArea>>

RECURSIVE SumHeights(_)
SumHeights(hs) == IF hs = <<>> THEN 0 ELSE Head(hs) + SumHeights(Tail(hs))

\* scroll_area.rs lines 86-89: max_scroll alone is written
Bounds(a, hs) == [a EXCEPT !.max = Vec2(0, Max2(SumHeights(hs) - AreaSize.y, 0))]

\* The query asks for &Children: an area without children is not visited
ScrollBoundsSystem ==
    /\ family = "area"
    /\ Ran("scroll_bounds")
    /\ area' = IF sc_children # <<>> THEN Bounds(area, sc_children) ELSE area
    /\ UNCHANGED <<area_built, sc_children, windows, cursor, wheel, notArea>>

NextPane == PaneInput \/ ScrollPaneSystem
NextArea == AreaInput \/ ScrollAreaSystem \/ ScrollBoundsSystem

----------------------------------------------------------------------------
(* Focus traversal: systems::focus_navigation_system                       *)

FocusHandlers == {"focus_nav"}

NumFocus == 3
MaxPresses == 4

\* The focusable entities are 1..n, which is also the order the query yields them in
Focusables == 1..Len(foc_pos)

FocusCoords == {0, 1}
FocusPositions == FocusCoords \X FocusCoords

InitFocus ==
    /\ current_focus = None
    /\ \E n \in 0..NumFocus :
        /\ foc_pos \in [1..n -> FocusPositions]
        /\ foc_state = [e \in 1..n |-> "Active"]
        /\ foc_bg = [e \in 1..n |-> "NONE"]
        /\ foc_border = [e \in 1..n |-> "NONE"]
    /\ key_tab = FALSE
    /\ foc_hist = <<>>

IdleFocus ==
    /\ current_focus = None
    /\ foc_pos = <<>>
    /\ foc_state = <<>>
    /\ foc_bg = <<>>
    /\ foc_border = <<>>
    /\ key_tab = FALSE
    /\ foc_hist = <<>>

\* The keyboard layer: Tab went down in this frame, or not
FocusInput ==
    /\ family = "focus"
    /\ \E k \in BOOLEAN :
        /\ k => Len(foc_hist) < MaxPresses
        /\ key_tab' = k
    /\ Input({})
    /\ UNCHANGED <<current_focus, foc_pos, foc_state, foc_bg, foc_border, foc_hist, notFocus>>

\* systems.rs lines 147-151: y first, then x
FocusBeforeXFirst(a, b) ==
    \/ foc_pos[a][1] < foc_pos[b][1]
    \/ foc_pos[a][1] = foc_pos[b][1] /\ foc_pos[a][2] < foc_pos[b][2]

FocusBefore(a, b) ==
    \/ foc_pos[a][2] < foc_pos[b][2]
    \/ foc_pos[a][2] = foc_pos[b][2] /\ foc_pos[a][1] < foc_pos[b][1]

\* slice::sort_by is stable: e goes behind everything that is not after it
RECURSIVE InsertSorted(_, _)
InsertSorted(sorted, e) ==
    IF sorted = <<>> THEN <<e>>
    ELSE IF FocusBefore(e, Head(sorted)) THEN <<e>> \o sorted
    ELSE <<Head(sorted)>> \o InsertSorted(Tail(sorted), e)

RECURSIVE SortFrom(_, _)
SortFrom(sorted, e) ==
    IF e > Len(foc_pos) THEN sorted ELSE SortFrom(InsertSorted(sorted, e), e + 1)

SortedFocusables == SortFrom(<<>>, 1)

\* systems.rs line 155
NextPosSaturating(pos, len) == IF pos + 1 < len THEN pos + 1 ELSE pos
NextPos(pos, len) == (pos + 1) % len

\* systems.rs lines 153-160
AdvanceFocus(cur) ==
    LET focusables == SortedFocusables
    IN  IF IsSome(cur)
        THEN LET pos == Position(focusables, Unwrap(cur))
             IN  IF IsSome(pos)
                 THEN Some(focusables[NextPos(Unwrap(pos), Len(focusables)) + 1])
                 ELSE cur
        ELSE IF focusables # <<>> THEN Some(focusables[1]) ELSE cur

\* just_pressed as this run of the handler reads it
TabJustPressed(h) == h \notin seen /\ key_tab

\* systems.rs lines 164-178, for the focus target cur
FocusStateOfKeepActive(e, cur) == IF cur = Some(e) THEN "Focused" ELSE foc_state[e]
FocusStateOf(e, cur) == IF cur = Some(e) THEN "Focused" ELSE "NotFocused"

FocusNavigationSystem ==
    /\ family \in {"focus", "focusgone"}
    /\ Ran("focus_nav")
    /\ LET pressed == TabJustPressed("focus_nav")
           cur == IF pressed THEN AdvanceFocus(current_focus) ELSE current_focus
       IN  /\ current_focus' = cur
           /\ foc_hist' = IF pressed THEN Append(foc_hist, cur) ELSE foc_hist
           /\ foc_state' = [e \in Focusables |-> FocusStateOf(e, cur)]
           /\ foc_bg' = [e \in Focusables |->
                           IF cur = Some(e) THEN "focus::HIGHLIGHT" ELSE foc_bg[e]]
           /\ foc_border' = [e \in Focusables |->
                           IF cur = Some(e) THEN "focus::BORDER" ELSE foc_border[e]]
    /\ UNCHANGED <<foc_pos, key_tab, notFocus>>

NextFocus == FocusInput \/ FocusNavigationSystem

\* Focus traversal in a world whose host despawns widgets: between two frames
\* the host may despawn the focusable it spawned last (or remove its
\* Focusable component), so the query no longer yields that entity.
WithoutLast(seq) == SubSeq(seq, 1, Len(seq) - 1)

FocusGoneInput ==
    /\ family = "focusgone"
    /\ \E k \in BOOLEAN, despawn \in BOOLEAN :
        /\ k => Len(foc_hist) < MaxPresses
        /\ despawn => Len(foc_pos) > 0
        /\ key_tab' = k
        /\ IF despawn
           THEN /\ foc_pos' = WithoutLast(foc_pos)
                /\ foc_state' = WithoutLast(foc_state)
                /\ foc_bg' = WithoutLast(foc_bg)
                /\ foc_border' = WithoutLast(foc_border)
           ELSE UNCHANGED <<foc_pos, foc_state, foc_bg, foc_border>>
    /\ Input({})
    /\ UNCHANGED <<current_focus, foc_hist, notFocus>>

NextFocusGone == FocusGoneInput \/ FocusNavigationSystem

----------------------------------------------------------------------------
(* Setting rows: systems::setting_row_system                               *)

RowHandlers == {"setting_row"}

FocusStates == {"NotFocused", "Focused", "Active"}

InitRow ==
    /\ row \in [help_text : {None, Some("help")}]
    /\ row_interaction = "None"
    /\ row_focus \in FocusStates
    /\ row_bg = "NONE"
    /\ tooltips \in {<<>>, <<"tip">>, <<"tip", "tip">>}

IdleRow ==
    /\ row = [help_text |-> None]
    /\ row_interaction = "None"
    /\ row_focus = "Active"
    /\ row_bg = "NONE"
    /\ tooltips = <<>>

RowInput ==
    /\ family = "row"
    /\ \E i \in Interactions :
        /\ row_interaction' = i
        /\ Input(IF i # row_interaction THEN {TheEntity} ELSE {})
    /\ UNCHANGED <<row, row_focus, row_bg, tooltips, notRow>>

\* systems.rs lines 305-325: the first arm that matches
RowColorFocusedFirst(i, f) ==
    CASE f = "Focused" -> "row::FOCUSED"
      [] f # "Focused" /\ i = "Pressed" -> "row::PRESSED"
      [] f = "NotFocused" /\ i = "Hovered" -> "row::HOVERED"
      [] OTHER -> "row::NORMAL"

RowColor(i, f) ==
    CASE i = "Pressed" -> "row::PRESSED"
      [] i = "Hovered" /\ f = "NotFocused" -> "row::HOVERED"
      [] i # "Pressed" /\ ~(i = "Hovered" /\ f = "NotFocused") /\ f = "Focused" -> "row::FOCUSED"
      [] OTHER -> "row::NORMAL"

\* systems.rs lines 313-317: get_single_mut succeeds with exactly one tooltip
RowTooltips(r, i, f, tips) ==
    IF i = "Hovered" /\ f = "NotFocused" /\ IsSome(r.help_text) /\ Len(tips) = 1
    THEN <<Unwrap(r.help_text)>>
    ELSE tips

SettingRowSystem ==
    /\ family = "row"
    /\ Ran("setting_row")
    /\ IF ChangedInteraction("setting_row", TheEntity)
       THEN /\ row_bg' = RowColor(row_interaction, row_focus)
            /\ tooltips' = RowTooltips(row, row_interaction, row_focus, tooltips)
       ELSE UNCHANGED <<row_bg, tooltips>>
    /\ UNCHANGED <<row, row_interaction, row_focus, notRow>>

NextRow == RowInput \/ SettingRowSystem

----------------------------------------------------------------------------
(* A focusable setting row: the one entity that focus_navigation_system    *)
(* and setting_row_system both query (SettingRow, Focusable, Interaction,  *)
(* BackgroundColor, BorderColor, GlobalTransform).  Its Focusable.state,   *)
(* BackgroundColor and BorderColor are foc_state[1], foc_bg[1] and         *)
(* foc_border[1].                                                          *)

FocusRowHandlers == {"focus_nav", "setting_row"}

InitFocusRowFocusable ==
    /\ current_focus = None
    /\ foc_pos = << <<0, 0>> >>
    /\ foc_state = <<"Active">>
    /\ foc_bg = <<"NONE">>
    /\ foc_border = <<"NONE">>
    /\ key_tab = FALSE
    /\ foc_hist = <<>>

InitFocusRowRow ==
    /\ row \in [help_text : {None, Some("help")}]
    /\ row_interaction = "None"
    /\ row_focus = "Active"
    /\ row_bg = "NONE"
    /\ tooltips \in {<<>>, <<"tip">>}

\* The components of the row that the two handlers read and write
RowWorld ==
    [cur |-> current_focus, state |-> foc_state[TheEntity], bg |-> foc_bg[TheEntity],
     border |-> foc_border[TheEntity], tips |-> tooltips]

\* The pointer layer and the keyboard layer of one frame
FocusRowInput ==
    /\ family = "focusrow"
    /\ \E i \in Interactions, k \in BOOLEAN :
        /\ row_interaction' = i
        /\ key_tab' = k
        /\ Input(IF i # row_interaction THEN {TheEntity} ELSE {})
    /\ UNCHANGED <<row, row_focus, row_bg, tooltips, current_focus, foc_pos, foc_state,
                   foc_bg, foc_border, foc_hist,
                   sliderVars, checkboxVars, buttonVars, dropdownVars, tabVars, scrollVars>>

\* systems.rs lines 143-178 on the row: what a run of focus_navigation_system
\* makes of w when Tab was (not) just pressed
FocusNavOn(w, pressed) ==
    LET cur == IF pressed THEN AdvanceFocus(w.cur) ELSE w.cur
    IN  [w EXCEPT !.cur = cur,
                  !.state = FocusStateOf(TheEntity, cur),
                  !.bg = IF cur = Some(TheEntity) THEN "focus::HIGHLIGHT" ELSE w.bg,
                  !.border = IF cur = Some(TheEntity) THEN "focus::BORDER" ELSE w.border]

\* systems.rs lines 304-326 on the row: what a run of setting_row_system makes
\* of w when the row's Interaction has (not) changed
SettingRowOn(w, chg) ==
    IF chg
    THEN [w EXCEPT !.bg = RowColor(row_interaction, w.state),
                   !.tips = RowTooltips(row, row_interaction, w.state, w.tips)]
    ELSE w

\* Writing w back into the row's components
FocusRowWrite(w) ==
    /\ current_focus' = w.cur
    /\ foc_state' = [e \in Focusables |-> w.state]
    /\ foc_bg' = [e \in Focusables |-> w.bg]
    /\ foc_border' = [e \in Focusables |-> w.border]
    /\ tooltips' = w.tips
    /\ UNCHANGED <<row, row_interaction, row_focus, row_bg, foc_pos, key_tab, foc_hist,
                   sliderVars, checkboxVars, buttonVars, dropdownVars, tabVars, scrollVars>>

FocusRowNavigation ==
    /\ family = "focusrow"
    /\ Ran("focus_nav")
    /\ FocusRowWrite(FocusNavOn(RowWorld, TabJustPressed("focus_nav")))

FocusRowSettingRow ==
    /\ family = "focusrow"
    /\ Ran("setting_row")
    /\ FocusRowWrite(SettingRowOn(RowWorld, ChangedInteraction("setting_row", TheEntity)))

NextFocusRow == FocusRowInput \/ FocusRowNavigation \/ FocusRowSettingRow

----------------------------------------------------------------------------
(* Specifications *)

Families ==
    {"slider", "checkbox", "button", "dropdown", "tab", "pane", "area", "focus", "row",
     "focusrow", "focusgone"}

HandlersOf(f) ==
    CASE f = "slider" -> SliderHandlers
      [] f = "checkbox" -> CheckboxHandlers
      [] f = "button" -> ButtonHandlers
      [] f = "dropdown" -> DropdownHandlers
      [] f = "tab" -> TabHandlers
      [] f = "pane" -> PaneHandlers
      [] f = "area" -> AreaHandlers
      [] f = "focus" -> FocusHandlers
      [] f = "row" -> RowHandlers
      [] f = "focusrow" -> FocusRowHandlers
      [] f = "focusgone" -> FocusHandlers

Handlers == UNION { HandlersOf(f) : f \in Families }

\* The host schedules either of two same-named handlers, or both; the other
\* families' handlers are all scheduled.
Schedules(f) ==
    IF f \in {"slider", "checkbox", "button"}
    THEN (SUBSET HandlersOf(f)) \ {{}}
    ELSE {HandlersOf(f)}

\* Every entity is freshly spawned: Changed<T> is true for an added component.
Init ==
    /\ family \in Families
    /\ scheduled \in Schedules(family)
    /\ seen = {}
    /\ last = "init"
    /\ repeat = FALSE
    /\ panicked = FALSE
    /\ IF family = "slider" THEN InitSlider ELSE IdleSlider
    /\ IF family = "checkbox" THEN InitCheckbox ELSE IdleCheckbox
    /\ IF family = "button" THEN InitButton ELSE IdleButton
    /\ IF family = "dropdown" THEN InitDropdown ELSE IdleDropdown
    /\ IF family = "tab" THEN InitTab ELSE IdleTab
    /\ IF family = "pane" THEN InitPane ELSE IdlePane
    /\ IF family = "area" THEN InitArea ELSE IdleArea
    /\ IF family \in {"pane", "area"} THEN TRUE ELSE IdleScrollInput
    /\ IF family \in {"focus", "focusgone"} THEN InitFocus
       ELSE IF family = "focusrow" THEN InitFocusRowFocusable ELSE IdleFocus
    /\ IF family = "row" THEN InitRow
       ELSE IF family = "focusrow" THEN InitFocusRowRow ELSE IdleRow
    /\ changed = IF family = "tab" THEN TabButtons ELSE {TheEntity}

Next ==
    \/ NextSlider
    \/ NextCheckbox
    \/ NextButton
    \/ NextDropdown
    \/ NextTab
    \/ NextPane
    \/ NextArea
    \/ NextFocus
    \/ NextRow
    \/ NextFocusRow
    \/ NextFocusGone

Spec == Init /\ [][Next]_vars
InitSliderRun == Init /\ family = "slider"
SpecSlider == InitSliderRun /\ [][NextSlider]_vars
InitCheckboxRun == Init /\ family = "checkbox"
SpecCheckbox == InitCheckboxRun /\ [][NextCheckbox]_vars
InitTabRun == Init /\ family = "tab"
SpecTab == InitTabRun /\ [][NextTab]_vars
InitPaneRun == Init /\ family = "pane"
SpecPane == InitPaneRun /\ [][NextPane]_vars
InitAreaRun == Init /\ family = "area"
SpecArea == InitAreaRun /\ [][NextArea]_vars
InitFocusRun == Init /\ family = "focus"
SpecFocus == InitFocusRun /\ [][NextFocus]_vars
InitDropdownRun == Init /\ family = "dropdown"
SpecDropdown == InitDropdownRun /\ [][NextDropdown]_vars
InitFocusRowRun == Init /\ family = "focusrow"
SpecFocusRow == InitFocusRowRun /\ [][NextFocusRow]_vars
InitRowRun == Init /\ family = "row"
SpecRow == InitRowRun /\ [][NextRow]_vars
InitFocusGoneRun == Init /\ family = "focusgone"
SpecFocusGone == InitFocusGoneRun /\ [][NextFocusGone]_vars
InitButtonRun == Init /\ family = "button"
SpecButton == InitButtonRun /\ [][NextButton]_vars

----------------------------------------------------------------------------
(* Properties *)

widgetVars == <<sliderVars, checkboxVars, buttonVars, dropdownVars, tabVars,
                scrollVars, focusVars, rowVars>>

\* C1: for every slider, after any sequence of pointer interactions handled
\* by a slider interaction handler, min <= value <= max.
C1_SliderValueInRange ==
    family = "slider" => (slider.min <= slider.value /\ slider.value <= slider.max)

\* C2: for every scroll widget (ScrollPane and ScrollArea), in every reachable
\* state 0 <= scroll_position <= max_scroll, also when the scroll-bounds pass
\* recomputes a smaller max_scroll between wheel events.
WithinBounds(w) ==
    /\ 0 <= w.pos.x /\ w.pos.x <= w.max.x
    /\ 0 <= w.pos.y /\ w.pos.y <= w.max.y

C2_ScrollWithinBounds ==
    /\ family = "pane" => WithinBounds(pane)
    /\ family = "area" => WithinBounds(area)

\* C3: for every tab container, after any sequence of presses on its tab
\* buttons (the frame's visibility commands applied in order), exactly one
\* child is visible, it is the child at index active_tab, and every other
\* child is hidden.
C3_OneVisibleTab ==
    (family = "tab" /\ tab_handled) =>
        \A k \in 1..Len(tab_children) :
            IF k - 1 = tab_active
            THEN Shown(tab_vis[tab_children[k]])
            ELSE tab_vis[tab_children[k]] = "Hidden"

\* C4: with a fixed set of N >= 1 focusable widgets at fixed positions and one
\* of them focused, N presses of Tab, one per frame, return focus to the widget
\* that was focused before the first of them.
C4_FocusCycles ==
    family = "focus" =>
        \A i \in 1..Len(foc_hist) :
            (IsSome(foc_hist[i]) /\ i + Len(foc_pos) <= Len(foc_hist))
                => foc_hist[i + Len(foc_pos)] = foc_hist[i]

\* C4 witness: three widgets, focus on one of them, Tab pressed three more
\* times, and the focus moved in between.
C4_Witness ==
    /\ family = "focus"
    /\ Len(foc_pos) = 3
    /\ Len(foc_hist) >= 4
    /\ IsSome(foc_hist[1])
    /\ foc_hist[2] # foc_hist[1]
    /\ foc_hist[3] # foc_hist[1]
    /\ foc_hist[4] = foc_hist[1]

\* C5: for a checkbox with disabled=false, each transition of its interaction
\* to pressed flips checked exactly once, and frames without such a transition
\* leave checked unchanged: once the frame's handlers ran, checked differs from
\* its initial value iff the number of transitions to pressed is odd.
C5_PressFlipsOnce ==
    (family = "checkbox" /\ FrameDone /\ ~checkbox.disabled)
        => ((checkbox.checked # cb_initial) = cb_presses)

\* C6: a handler (button, checkbox, slider, dropdown, tab, scroll pane, scroll
\* area, focus navigation, setting row) that is invoked a second time in
\* succession with no new input event leaves all widget state and all derived
\* visual properties as its first invocation left them.
C6_Idempotent == [][repeat' => UNCHANGED widgetVars]_vars

\* C6 witness: focus navigation ran twice in succession after it had handled a
\* Tab press and focused a widget.
C6_Witness ==
    /\ repeat
    /\ last = "focus_nav"
    /\ key_tab
    /\ IsSome(current_focus)
    /\ foc_state[Unwrap(current_focus)] = "Focused"

\* C7: for every slider whose step is set, after any interaction sequence
\* value = min + k*step for some integer k.
C7_SliderValueOnStep == family = "slider" => OnStep(slider)

\* The value a press at p percent of the track resolves to: min + p*(max-min),
\* rounded to the nearest multiple of step when step is set, clamped to
\* [min, max]; in hundredths when no step is set.
PointerValue100(s, p) == s.min * 100 + p * (s.max - s.min)

SteppedValue(s, p) ==
    LET st == Unwrap(s.step)
    IN  Clamp(((PointerValue100(s, p) + 50 * st) \div (100 * st)) * st, s.min, s.max)

\* C8: while the pointer is pressed on an enabled slider at relative position
\* p, the handler sets value to min + p*(max-min), rounded to the nearest
\* multiple of step when step is set and clamped to [min, max], and sets the
\* fill width to the matching percentage.
C8_PressSetsValueFromPointer ==
    (family = "slider" /\ FrameDone /\ TheEntity \in changed
       /\ sl_interaction = "Pressed" /\ ~slider.disabled)
    => /\ IF IsSome(slider.step)
          THEN slider.value = SteppedValue(slider, sl_pointer)
          ELSE slider.value * 100 = PointerValue100(slider, sl_pointer)
       /\ sl_width = ValPercent(((slider.value - slider.min) * 100)
                                   \div (slider.max - slider.min))

\* C9: for a checkbox with disabled=true no interaction transition changes
\* checked or the background color, under every checkbox handler of the crate.
C9_DisabledCheckboxInert ==
    [][checkbox.disabled => (checkbox'.checked = checkbox.checked /\ cb_bg' = cb_bg)]_vars

\* C10: for a slider with disabled=true no pointer interaction transition
\* changes the slider's value or its fill width.
C10_DisabledSliderInert ==
    [][slider.disabled => (slider'.value = slider.value /\ sl_width' = sl_width)]_vars

\* C11: once systems::button_interaction_system has processed an interaction
\* change on a button, pressed is true iff the interaction is Pressed, hovered
\* iff it is Hovered (never both), the background is the pressed / hovered /
\* normal color of the interaction, every section of every child text node has
\* the text color of that state, and children that are no text nodes are as
\* they were.
C11_ButtonReflectsInteraction ==
    (family = "button" /\ "sys_button" \in seen /\ TheEntity \in changed) =>
        /\ button.pressed = (bt_interaction = "Pressed")
        /\ button.hovered = (bt_interaction = "Hovered")
        /\ ~(button.pressed /\ button.hovered)
        /\ bt_bg = (IF bt_interaction = "Pressed" THEN "button::PRESSED"
                    ELSE IF bt_interaction = "Hovered" THEN "button::HOVERED"
                    ELSE "button::NORMAL")
        /\ \A k \in 1..Len(bt_children) :
              IF bt_children[k].text
              THEN \A n \in 1..Len(bt_children[k].sections) :
                      bt_children[k].sections[n] =
                          (IF bt_interaction = "Pressed" THEN "focus::TEXT" ELSE "text::NORMAL")
              ELSE bt_children[k] = OtherChild
        /\ ~panicked

\* C11 witness: a press was processed on a button with a non-text child and a
\* text child of two sections.
C11_Witness ==
    /\ family = "button"
    /\ "sys_button" \in seen
    /\ TheEntity \in changed
    /\ bt_interaction = "Pressed"
    /\ button.pressed
    /\ Len(bt_children) = 2
    /\ ~bt_children[1].text
    /\ bt_children[2].sections = <<"focus::TEXT", "focus::TEXT">>

\* The rows of `children` that the dropdown handler synthesized, in order
IsOptionRow(c) == c.synth
OptionRowsOf(children) == SelectSeq(children, IsOptionRow)

\* C12: after any sequence of presses on a dropdown built closed (the frame's
\* spawn / despawn commands applied), the dropdown has exactly one synthesized
\* option row per entry of options, in options order, when opened is true and
\* none when opened is false; each transition to Pressed flips opened.
C12_RowsFollowOpened ==
    (family = "dropdown" /\ FrameDone) =>
        /\ dropdown.opened = dd_presses
        /\ OptionRowsOf(dd_children) =
              (IF dropdown.opened
               THEN [k \in 1..Len(dropdown.options) |->
                        [synth |-> TRUE, index |-> k - 1, label |-> dropdown.options[k]]]
               ELSE <<>>)

\* C12 witness: a dropdown of two different options was opened by a press,
\* the pointer left it, and its children are its two rows.
C12_Witness ==
    /\ family = "dropdown"
    /\ FrameDone
    /\ dropdown.opened
    /\ dd_interaction = "None"
    /\ Len(dropdown.options) = 2
    /\ dropdown.options[1] # dropdown.options[2]
    /\ Len(dd_children) = 2
    /\ dd_children[2].label = dropdown.options[2]

\* C13: when the tab button that is the child at index i of a tab container
\* went to Pressed and tab_system has run, active_tab is i and every sibling
\* except the child at index i is hidden.
C13_PressSelectsTab ==
    (family = "tab" /\ "tab" \in seen) =>
        \A i \in 0..(Len(tab_children) - 1) :
            (tab_children[i + 1] \in changed /\ tab_inter[tab_children[i + 1]] = "Pressed") =>
                /\ tab_active = i
                /\ \A k \in 0..(Len(tab_children) - 1) :
                      k # i => tab_vis[tab_children[k + 1]] = "Hidden"

\* The position the wheel events evs leave a scroll widget at, one axis: per
\* event, 20 times y for a line-unit event and y itself for a pixel-unit
\* event is added, and the sum is clamped to [0, max].
RECURSIVE WheelScrolled(_, _, _)
WheelScrolled(pos, max, evs) ==
    IF evs = <<>> THEN pos
    ELSE WheelScrolled(
             Clamp(pos + (IF Head(evs).unit = "Line" THEN 20 * Head(evs).y ELSE Head(evs).y),
                   0, max),
             max, Tail(evs))

\* C14: a run of a wheel handler leaves every scroll widget under the cursor
\* at the position the frame's wheel events scroll it to (20 times y per
\* line-unit event, y per pixel-unit event, clamped to [0, max_scroll]), and
\* leaves a widget alone when the cursor is outside its rectangle or the
\* window has no cursor position; for ScrollPane and for an enabled ScrollArea.
C14_WheelScrolls ==
    [][ /\ (family = "pane" /\ last' = "scroll_pane" /\ ~panicked') =>
              pane'.pos.y = (IF CursorOver
                             THEN WheelScrolled(pane.pos.y, pane.max.y, Unread("scroll_pane"))
                             ELSE pane.pos.y)
        /\ (family = "area" /\ last' = "scroll_area" /\ ~panicked' /\ area.enabled) =>
              area'.pos.y = (IF CursorOver
                             THEN WheelScrolled(area.pos.y, area.max.y, Unread("scroll_area"))
                             ELSE area.pos.y) ]_vars

\* C15: once the frame's handlers ran, the vertical max_scroll of a scroll
\* widget with children is max(0, sum of the children's heights - the
\* container's height), never negative, for ScrollArea and for ScrollPane.
C15_BoundsFollowChildren ==
    LET total == SumHeights(sc_children)
        bound == IF total > AreaSize.y THEN total - AreaSize.y ELSE 0
    IN  /\ (family = "area" /\ "scroll_bounds" \in seen /\ sc_children # <<>>) =>
              (area.max.y = bound /\ area.max.y >= 0)
        /\ (family = "pane" /\ FrameDone /\ ~panicked /\ sc_children # <<>>) =>
              (pane.max.y = bound /\ pane.max.y >= 0)

\* The place of widget e among the focusables in ascending order of y, then
\* x; widgets at the same position keep the order the query yields them in.
RankOf(e) ==
    Cardinality({ f \in Focusables :
        \/ foc_pos[f][2] < foc_pos[e][2]
        \/ foc_pos[f][2] = foc_pos[e][2] /\ foc_pos[f][1] < foc_pos[e][1]
        \/ foc_pos[f] = foc_pos[e] /\ f < e })

\* C16: every handled Tab press moves the focus to the successor of the
\* focused widget in the order by y then x, wrapping from the last widget to
\* the first; with nothing focused yet the focus goes to the first widget of
\* that order (and stays empty when there is no focusable widget).
C16_FocusMovesToSuccessor ==
    family = "focus" =>
        \A i \in 1..Len(foc_hist) :
            LET prev == IF i = 1 THEN None ELSE foc_hist[i - 1]
                n == Len(foc_pos)
            IN  IF IsSome(prev)
                THEN /\ IsSome(foc_hist[i])
                     /\ RankOf(Unwrap(foc_hist[i])) =
                          (IF RankOf(Unwrap(prev)) + 1 = n THEN 0 ELSE RankOf(Unwrap(prev)) + 1)
                ELSE IF n > 0
                     THEN IsSome(foc_hist[i]) /\ RankOf(Unwrap(foc_hist[i])) = 0
                     ELSE foc_hist[i] = None

\* C16 witness: three widgets whose order by position is not their query
\* order, two of them in one row; Tab was pressed four times, the last press
\* wrapping from the last widget to the first.
C16_Witness ==
    /\ family = "focus"
    /\ Len(foc_pos) = 3
    /\ RankOf(1) = 2
    /\ foc_pos[2][2] = foc_pos[3][2]
    /\ foc_pos[3][1] < foc_pos[2][1]
    /\ Len(foc_hist) = 4
    /\ foc_hist[1] = Some(3)
    /\ foc_hist[3] = Some(1)
    /\ foc_hist[4] = Some(3)

\* C17: after every run of the focus navigation handler, a focusable widget's
\* background is the focus highlight, and its border the focus border, if and
\* only if the widget is the current focus target; a widget that lost the
\* focus shows neither.
C17_HighlightFollowsFocus ==
    (family = "focus" /\ last # "init") =>
        \A e \in Focusables :
            /\ (foc_bg[e] = "focus::HIGHLIGHT") = (current_focus = Some(e))
            /\ (foc_border[e] = "focus::BORDER") = (current_focus = Some(e))

\* C18: after every run of the focus navigation handler, at most one
\* focusable widget is Focused, every other one is NotFocused (none is left
\* Active), and the Focused widget is the one the current-focus slot holds.
C18_OneFocused ==
    (family = "focus" /\ last # "init") =>
        /\ Cardinality({ e \in Focusables : foc_state[e] = "Focused" }) <= 1
        /\ \A e \in Focusables :
              /\ foc_state[e] \in {"Focused", "NotFocused"}
              /\ (foc_state[e] = "Focused") = (current_focus = Some(e))

\* C18 witness: of three widgets one is Focused and two are NotFocused, one of
\* which had the focus before the last Tab press.
C18_Witness ==
    /\ family = "focus"
    /\ Len(foc_pos) = 3
    /\ Len(foc_hist) >= 2
    /\ foc_hist[1] = Some(1)
    /\ current_focus = Some(2)
    /\ foc_state = <<"NotFocused", "Focused", "NotFocused">>

\* C19: no handler run ends in a panic: a missing or empty expected child
\* (the checkbox label), an absent window or an empty focusable set makes the
\* handler skip the update for the frame.
C19_NoPanic == ~panicked

\* C20: within one frame no two scheduled handlers write the same component
\* of the same entity, so the frame ends in the same widget state and visual
\* properties whichever order the host runs the handlers in: at the start of
\* a frame, focus navigation followed by the setting-row handler gives what
\* the setting-row handler followed by focus navigation gives.
C20_OrderIndependent ==
    (family = "focusrow" /\ seen = {}) =>
        LET pressed == TabJustPressed("focus_nav")
            chg == ChangedInteraction("setting_row", TheEntity)
        IN  SettingRowOn(FocusNavOn(RowWorld, pressed), chg)
              = FocusNavOn(SettingRowOn(RowWorld, chg), pressed)

\* C21: no step changes a dropdown's selected_index, and opened changes only
\* in a handler run over a transition of the dropdown entity itself to
\* Pressed; a press on a synthesized option row changes neither.
C21_RowPressChangesNothing ==
    [][ (family = "dropdown") =>
          /\ dropdown'.selected_index = dropdown.selected_index
          /\ (dropdown'.opened # dropdown.opened) =>
                (dd_interaction = "Pressed" /\ TheEntity \in changed /\ dd_row_pressed = 0) ]_vars

\* C21 witness: the handler ran over a press on the second option row of an
\* opened dropdown, which is still opened and shows its rows.
C21_Witness ==
    /\ family = "dropdown"
    /\ "dropdown" \in seen
    /\ dropdown.opened
    /\ dd_row_pressed # 0
    /\ dd_children[dd_row_pressed].synth
    /\ dd_children[dd_row_pressed].index = 1
    /\ RowEntity(dd_row_pressed) \in changed
    /\ dropdown.selected_index = 0

\* C22: a run of the setting-row handler over a changed interaction sets the
\* background by this precedence: Pressed gives the pressed color whatever
\* the focus state; else Hovered on a row in state NotFocused gives the hover
\* color and copies the row's help text into the tooltip when the row has a
\* help text and exactly one tooltip exists; else a row in state Focused gets
\* the focused color; else the default row color.  Without help text or
\* without a unique tooltip all tooltips stay as they are.
C22_RowColorPrecedence ==
    [][ (family = "row" /\ last' = "setting_row" /\ "setting_row" \notin seen
           /\ TheEntity \in changed) =>
          /\ row_bg' = (IF row_interaction = "Pressed" THEN "row::PRESSED"
                        ELSE IF row_interaction = "Hovered" /\ row_focus = "NotFocused"
                             THEN "row::HOVERED"
                        ELSE IF row_focus = "Focused" THEN "row::FOCUSED"
                        ELSE "row::NORMAL")
          /\ tooltips' = (IF /\ row_interaction = "Hovered"
                             /\ row_focus = "NotFocused"
                             /\ row.help_text # None
                             /\ Len(tooltips) = 1
                          THEN row.help_text
                          ELSE tooltips) ]_vars

\* C22 witness: a pressed row in state Focused has the pressed color.
C22_Witness ==
    /\ family = "row"
    /\ last = "setting_row"
    /\ TheEntity \in changed
    /\ row_interaction = "Pressed"
    /\ row_focus = "Focused"
    /\ row_bg = "row::PRESSED"

\* C23: a ScrollArea built by with_sensitivity(s) is enabled like one built
\* by new(): a run of the wheel handler scrolls it as it scrolls an enabled
\* area of that sensitivity; and an area whose enabled is false keeps its
\* scroll_position under every wheel event.
C23_WithSensitivityScrolls ==
    [][ (family = "area" /\ last' = "scroll_area" /\ ~panicked') =>
          IF area_built = "with_sensitivity"
          THEN area'.pos = AreaEvents([area EXCEPT !.enabled = TRUE], Unread("scroll_area")).pos
          ELSE ~area.enabled => area'.pos = area.pos ]_vars

\* C24: once the handler ran over a Tab press while at least one focusable
\* widget exists, exactly one existing focusable widget is Focused and the
\* current-focus slot holds it, also when the widget focused before was
\* despawned since the last press.
C24_FocusNeverStale ==
    (family = "focusgone" /\ "focus_nav" \in seen /\ key_tab /\ Len(foc_pos) >= 1) =>
        /\ Cardinality({ e \in Focusables : foc_state[e] = "Focused" }) = 1
        /\ \E e \in Focusables : current_focus = Some(e)

====
